---- MODULE Spec2Model ----
(***************************************************************************)
(* DeleteDuplicateGeometriesTool._delete_duplicates                        *)
(* (src/tools/delete_duplicate_geometries.py) as a state machine.          *)
(*                                                                         *)
(* Geometry.  The code reads a geometry only through its bounds, its area, *)
(* and the emptiness and area of its exact intersection with another       *)
(* geometry.  A geometry is modelled as a non-empty set of atoms: disjoint *)
(* pieces laid out left to right at positions 1..NAtoms, each with a fixed *)
(* area (AtomArea); an atom of area 0 is a degenerate piece (a segment).   *)
(* The area of a geometry is the sum of its atoms' areas, the intersection *)
(* of two geometries is the set of their common atoms, and the bounds of a *)
(* geometry are the interval from its leftmost to its rightmost atom, so   *)
(* two geometries can have intersecting bounds and an empty intersection.  *)
(*                                                                         *)
(* Arithmetic.  Areas and thresholds are integers and the two percentage   *)
(* comparisons are exact (x / m * 100 > t  is  x * 100 > t * m for m > 0); *)
(* the rounding of the code's binary floating point is not modelled.       *)
(*                                                                         *)
(* Indices are 0-based as in the code: a data frame with n rows is a       *)
(* function on 0..n-1 (the RangeIndex after reset_index(drop=True)).       *)
(* Python lists (group, groups, removed_indices) are sequences.            *)
(***************************************************************************)
EXTENDS Integers, Sequences, FiniteSets, TLC

\* ---------------------------------------------------------------- bounds
\* Largest number of features in an input collection.
MaxN == 3
\* Number of atoms geometries are built from.
NAtoms == 4

Atoms == 1..NAtoms

\* Area of each atom: 0, 1, 2, 1, 0, 1, 2, 1, ...
AtomArea(a) ==
    IF a % 4 = 1 THEN 0 ELSE IF a % 4 = 3 THEN 2 ELSE 1

\* The geometries a feature may have.
Geoms == (SUBSET Atoms) \ {{}}

\* The values the two percentage settings are drawn from.
Pcts == {0, 50, 100}

\* ------------------------------------------------------- geometry library
RECURSIVE SumArea(_)
SumArea(S) ==
    IF S = {} THEN 0
    ELSE LET a == CHOOSE x \in S : TRUE
         IN  AtomArea(a) + SumArea(S \ {a})

\* geometry.area
Area(g) == SumArea(g)

\* geom_i.intersection(geom_j)
Intersection(g, h) == g \cap h

\* Mutant: no intersection counts as empty (the test of line 189 is missing).
IsEmpty_Never(g) == FALSE

\* inter.is_empty
IsEmpty(g) == g = {}

SetMin(S) == CHOOSE x \in S : \A y \in S : x <= y
SetMax(S) == CHOOSE x \in S : \A y \in S : x >= y

\* geom.bounds
Bounds(g) == <<SetMin(g), SetMax(g)>>

BoundsIntersect(b, c) == ~(b[2] < c[1] \/ c[2] < b[1])

Abs(x) == IF x < 0 THEN -x ELSE x
Min2(x, y) == IF x <= y THEN x ELSE y

\* ------------------------------------------------------------------ state
VARIABLES
    gdf,                    \* the caller's collection: 0..n-1 -> [geometry, attrs]
    area_tol_pct,           \* parameter
    overlap_pct_threshold,  \* parameter
    keep_first,             \* parameter
    df,                     \* gdf.copy().reset_index(drop=True) with the _area column
    pc,                     \* "idle" | "seed" | "cand" | "done" | "raised"
    i,                      \* the outer loop's index
    candidate_idxs,         \* the candidates of seed i not yet iterated
    group,                  \* the group of seed i being built
    to_remove,              \* the consumed set
    groups,                 \* the recorded groups
    removed_indices,        \* after the scan: the removals, in order
    removed_set,            \* set(removed_indices)
    result_df,              \* the returned collection: 0..k-1 -> [geometry, attrs]
    report,                 \* the returned report
    run,                    \* 1: the first call; 2: a second call made by the caller
    first,                  \* in a second call: the first call's report
    uploaded_file,          \* render_ui: "none" | "unreadable" | "zip"
    geom_type,              \* gdf.geometry.type, by row
    malformed,              \* the rows whose geometry the geometry engine may refuse
    page,                   \* what the latest run of render_ui has drawn
    exact_tests,            \* history: the pairs <<i, j>> that reached line 188
    other,                  \* a second, suspended call of _delete_duplicates
    merge_upload,           \* Merge tool: the uploaded collections
    merge_crs_option,       \* Merge tool: the radio "merge_crs_option"
    merged_gdf,             \* Merge tool: the outcome of the last press of Merge
    tools,                  \* ToolRegistry._tools: the dict, in insertion order
    session_state,          \* st.session_state: key -> value
    csv_upload,             \* Shapefile-to-CSV tool: the uploader "csv_upload"
    screen                  \* what main() has drawn in the main area

vars == <<gdf, area_tol_pct, overlap_pct_threshold, keep_first, df, pc, i,
          candidate_idxs, group, to_remove, groups, removed_indices,
          removed_set, result_df, report, run, first, uploaded_file,
          geom_type, malformed, page, exact_tests, other, merge_upload,
          merge_crs_option, merged_gdf, tools, session_state, csv_upload,
          screen>>

\* The state of the application outside the Delete Duplicate Geometries tool.
app == <<other, merge_upload, merge_crs_option, merged_gdf, tools,
         session_state, csv_upload, screen>>

env == <<uploaded_file, geom_type, malformed, page, app>>

params == <<area_tol_pct, overlap_pct_threshold, keep_first>>
scan == <<i, candidate_idxs, group, to_remove, groups>>
output == <<removed_indices, removed_set, result_df, report>>

NoReport == [total |-> -1, removed |-> -1, remaining |-> -1, groups |-> -1]
NoFrame == <<>>

n == Cardinality(DOMAIN df)

\* df = gdf.copy().reset_index(drop=True); df["_area"] = df.geometry.area
\* The assignment creates the column "area" (the source's "_area") or, if the
\* collection already has a column of that name, overwrites it; every other
\* column is copied.
WithArea(frame) ==
    [k \in DOMAIN frame |->
        [c \in DOMAIN frame[k] \cup {"area"} |->
            IF c = "area" THEN Area(frame[k].geometry) ELSE frame[k][c]]]

\* A collection of m features: row k has an attribute value of its own.
Collections(m, G) ==
    {[k \in 0..(m - 1) |-> [geometry |-> geo[k], attrs |-> k]] :
        geo \in [0..(m - 1) -> G]}

\* The state at entry of _delete_duplicates, after lines 156-162.
Enter(frame) ==
    /\ df = WithArea(frame)
    /\ pc = "seed"
    /\ i = 0
    /\ candidate_idxs = {}
    /\ group = <<>>
    /\ to_remove = {}
    /\ groups = <<>>
    /\ removed_indices = <<>>
    /\ removed_set = {}
    /\ result_df = NoFrame
    /\ report = NoReport
    /\ exact_tests = {}

PolygonTypes == {"Polygon", "MultiPolygon"}

\* Mutant: the check of the geometry types accepts every type.
OnlyPolygons_Any(types) == TRUE

\* lines 62-63: all(gt in ["Polygon", "MultiPolygon"] for gt in geom_types)
OnlyPolygons(types) == \A k \in DOMAIN types : types[k] \in PolygonTypes

\* A call of _delete_duplicates on a collection of well-formed polygons, with
\* no page being drawn.
\* No second call, and the application not started: no tool registered, an
\* empty session state, empty uploaders, nothing drawn.
NoRun == [pc |-> "none"]

Elsewhere ==
    /\ other = NoRun
    /\ merge_upload = <<>>
    /\ merge_crs_option = "first"
    /\ merged_gdf = [status |-> "none", crs |-> "None", coords |-> <<>>]
    /\ tools = <<>>
    /\ session_state = <<>>
    /\ csv_upload = [name |-> "None"]
    /\ screen = "none"

Called(frame) ==
    /\ Elsewhere
    /\ uploaded_file = "zip"
    /\ geom_type = [k \in DOMAIN frame |-> "Polygon"]
    /\ malformed = {}
    /\ page = "none"

Init ==
    /\ \E m \in 1..MaxN : gdf \in Collections(m, Geoms)
    /\ area_tol_pct \in Pcts
    /\ overlap_pct_threshold \in Pcts
    /\ keep_first \in BOOLEAN
    /\ Enter(gdf)
    /\ Called(gdf)
    /\ run = 1
    /\ first = NoReport

\* ------------------------------------------------------------- the scan
\* Mutant: the index has false negatives (it returns only rows whose bounds
\* equal the seed's).
SindexIntersection_EqualBounds(frame, b) ==
    {j \in DOMAIN frame : Bounds(frame[j].geometry) = b}

\* list(sindex.intersection(geom_i.bounds)): every row whose bounds intersect
\* the seed's, the seed itself included, in an order the index chooses.  The
\* set is iterated by taking any remaining element next.
SindexIntersection(frame, b) ==
    {j \in DOMAIN frame : BoundsIntersect(Bounds(frame[j].geometry), b)}

\* line 165: if i in to_remove: continue
SkipConsumedSeed ==
    /\ pc = "seed"
    /\ i < n
    /\ i \in to_remove
    /\ i' = i + 1
    /\ UNCHANGED <<gdf, params, df, pc, candidate_idxs, group, to_remove,
                   groups, output, run, first, env,
                   exact_tests>>

\* lines 167-172
QueryCandidates ==
    /\ pc = "seed"
    /\ i < n
    /\ i \notin to_remove
    /\ candidate_idxs' = SindexIntersection(df, Bounds(df[i].geometry))
    /\ group' = <<i>>
    /\ pc' = "cand"
    /\ UNCHANGED <<gdf, params, df, i, to_remove, groups, output, run, first, env,
                   exact_tests>>

\* Mutant: the consumed test is missing (j <= i only).
NotLookAhead_IgnoresConsumed(j, seed, consumed) == j <= seed

\* Mutant: only the seed itself is excluded (j == i for j <= i).
NotLookAhead_OnlySelf(j, seed, consumed) == j = seed \/ j \in consumed

\* line 175: j <= i or j in to_remove
NotLookAhead(j, seed, consumed) == j <= seed \/ j \in consumed

\* Mutant: the zero-area guard is missing.
ZeroArea_Never(area_i, area_j) == FALSE

\* line 180: area_i == 0 or area_j == 0
ZeroArea(area_i, area_j) == area_i = 0 \/ area_j = 0

\* Mutant: the tolerance bound is exclusive (>= for >).
AreaDiffExceeds_Exclusive(area_i, area_j, tol) ==
    Abs(area_i - area_j) * 100 >= tol * Min2(area_i, area_j)

\* lines 184-185: abs(area_i - area_j) / min(area_i, area_j) * 100.0 > area_tol_pct
AreaDiffExceeds(area_i, area_j, tol) ==
    Abs(area_i - area_j) * 100 > tol * Min2(area_i, area_j)

\* Mutant: the comparison with the overlap threshold is reversed (<= for >=).
OverlapReaches_Reversed(inter_area, area_i, area_j, threshold) ==
    inter_area * 100 <= threshold * Min2(area_i, area_j)

\* lines 192-193: inter.area / min(area_i, area_j) * 100.0 >= overlap_pct_threshold
OverlapReaches(inter_area, area_i, area_j, threshold) ==
    inter_area * 100 >= threshold * Min2(area_i, area_j)

\* The body of the inner loop for candidate j says "continue" at line 176.
SkipCandidate ==
    /\ pc = "cand"
    /\ \E j \in candidate_idxs :
        /\ NotLookAhead(j, i, to_remove)
        /\ candidate_idxs' = candidate_idxs \ {j}
    /\ UNCHANGED <<gdf, params, df, pc, i, group, to_remove, groups, output,
                   run, first, env,
                   exact_tests>>

\* ... at line 181
SkipZeroArea ==
    /\ pc = "cand"
    /\ \E j \in candidate_idxs :
        /\ ~NotLookAhead(j, i, to_remove)
        /\ ZeroArea(df[i].area, df[j].area)
        /\ candidate_idxs' = candidate_idxs \ {j}
    /\ UNCHANGED <<gdf, params, df, pc, i, group, to_remove, groups, output,
                   run, first, env,
                   exact_tests>>

\* ... at line 186
RejectAreaDiff ==
    /\ pc = "cand"
    /\ \E j \in candidate_idxs :
        /\ ~NotLookAhead(j, i, to_remove)
        /\ ~ZeroArea(df[i].area, df[j].area)
        /\ AreaDiffExceeds(df[i].area, df[j].area, area_tol_pct)
        /\ candidate_idxs' = candidate_idxs \ {j}
    /\ UNCHANGED <<gdf, params, df, pc, i, group, to_remove, groups, output,
                   run, first, env,
                   exact_tests>>

\* The pair reaches the exact intersection of line 188.
ExactTested(j) ==
    /\ ~NotLookAhead(j, i, to_remove)
    /\ ~ZeroArea(df[i].area, df[j].area)
    /\ ~AreaDiffExceeds(df[i].area, df[j].area, area_tol_pct)

\* ... at line 190
RejectEmpty ==
    /\ pc = "cand"
    /\ \E j \in candidate_idxs :
        /\ ExactTested(j)
        /\ IsEmpty(Intersection(df[i].geometry, df[j].geometry))
        /\ candidate_idxs' = candidate_idxs \ {j}
        /\ exact_tests' = exact_tests \cup {<<i, j>>}
    /\ UNCHANGED <<gdf, params, df, pc, i, group, to_remove, groups, output,
                   run, first, env>>

\* The test of line 193 fails and the body ends.
RejectOverlap ==
    /\ pc = "cand"
    /\ \E j \in candidate_idxs :
        /\ ExactTested(j)
        /\ LET inter == Intersection(df[i].geometry, df[j].geometry)
           IN  /\ ~IsEmpty(inter)
               /\ ~OverlapReaches(Area(inter), df[i].area, df[j].area,
                                  overlap_pct_threshold)
        /\ candidate_idxs' = candidate_idxs \ {j}
        /\ exact_tests' = exact_tests \cup {<<i, j>>}
    /\ UNCHANGED <<gdf, params, df, pc, i, group, to_remove, groups, output,
                   run, first, env>>

\* lines 194-195
AcceptCandidate ==
    /\ pc = "cand"
    /\ \E j \in candidate_idxs :
        /\ ExactTested(j)
        /\ LET inter == Intersection(df[i].geometry, df[j].geometry)
           IN  /\ ~IsEmpty(inter)
               /\ OverlapReaches(Area(inter), df[i].area, df[j].area,
                                 overlap_pct_threshold)
        /\ candidate_idxs' = candidate_idxs \ {j}
        /\ exact_tests' = exact_tests \cup {<<i, j>>}
        /\ group' = Append(group, j)
        /\ to_remove' = to_remove \cup {j}
    /\ UNCHANGED <<gdf, params, df, pc, i, groups, output, run, first, env>>

\* lines 197-198, and the outer loop's next index
CloseGroup ==
    /\ pc = "cand"
    /\ candidate_idxs = {}
    /\ groups' = IF Len(group) > 1 THEN Append(groups, group) ELSE groups
    /\ group' = <<>>
    /\ i' = i + 1
    /\ pc' = "seed"
    /\ UNCHANGED <<gdf, params, df, candidate_idxs, to_remove, output, run, first, env,
                   exact_tests>>

\* ------------------------------------------------------------ resolution
\* Mutant: keep-last removes the whole group (grp[:] for grp[:-1]).
RemovedOfGroup_WholeGroup(grp, keepFirst) ==
    IF keepFirst THEN SubSeq(grp, 2, Len(grp)) ELSE grp

\* Mutant: the two branches of keep_first are exchanged.
RemovedOfGroup_Swapped(grp, keepFirst) ==
    IF keepFirst THEN SubSeq(grp, 1, Len(grp) - 1)
    ELSE SubSeq(grp, 2, Len(grp))

\* lines 203-207: the members of grp that are removed
RemovedOfGroup(grp, keepFirst) ==
    IF keepFirst THEN SubSeq(grp, 2, Len(grp))
    ELSE SubSeq(grp, 1, Len(grp) - 1)

\* lines 201-207
RECURSIVE RemovedIndices(_, _)
RemovedIndices(grps, keepFirst) ==
    IF grps = <<>> THEN <<>>
    ELSE RemovedOfGroup(Head(grps), keepFirst)
            \o RemovedIndices(Tail(grps), keepFirst)

SeqToSet(s) == {s[k] : k \in 1..Len(s)}

\* line 210: [i for i in range(len(df)) if i not in removed_set], ascending
RECURSIVE KeptFrom(_, _, _)
KeptFrom(k, m, removed) ==
    IF k >= m THEN <<>>
    ELSE (IF k \in removed THEN <<>> ELSE <<k>>) \o KeptFrom(k + 1, m, removed)

\* Mutant: the range starts at 1 (range(1, len(df))).
KeptPositions_FromOne(m, removed) == KeptFrom(1, m, removed)

\* Mutant: the filter is inverted (if i in removed_set).
KeptPositions_Inverted(m, removed) == KeptFrom(0, m, (0..(m - 1)) \ removed)

KeptPositions(m, removed) == KeptFrom(0, m, removed)

\* lines 210-211: df.loc[kept].drop(columns=["_area"]).reset_index(drop=True)
\* The kept rows in the order of kept, every column but "area", renumbered.
Filtered(frame, kept) ==
    [k \in 0..(Len(kept) - 1) |->
        [c \in DOMAIN frame[kept[k + 1]] \ {"area"} |-> frame[kept[k + 1]][c]]]

\* lines 200-221
Resolve ==
    /\ pc = "seed"
    /\ i >= n
    /\ LET removed == RemovedIndices(groups, keep_first)
           res == Filtered(df, KeptPositions(n, SeqToSet(removed)))
       IN  /\ removed_indices' = removed
           /\ removed_set' = SeqToSet(removed)
           /\ result_df' = res
           /\ report' = [total     |-> n,
                         removed   |-> Cardinality(SeqToSet(removed)),
                         remaining |-> Cardinality(DOMAIN res),
                         groups    |-> Len(groups)]
    /\ pc' = "done"
    /\ UNCHANGED <<gdf, params, df, scan, run, first, env,
                   exact_tests>>

\* A caller's second call, on the collection the first call returned, with the
\* same parameters.
Rerun ==
    /\ pc = "done"
    /\ run = 1
    /\ gdf' = result_df
    /\ df' = WithArea(result_df)
    /\ pc' = "seed"
    /\ i' = 0
    /\ candidate_idxs' = {}
    /\ group' = <<>>
    /\ to_remove' = {}
    /\ groups' = <<>>
    /\ removed_indices' = <<>>
    /\ removed_set' = {}
    /\ result_df' = NoFrame
    /\ report' = NoReport
    /\ run' = 2
    /\ first' = report
    /\ exact_tests' = {}
    /\ UNCHANGED <<params, env>>

\* The next looser value of a percentage setting.
Above(p) == {q \in Pcts : q > p /\ \A r \in Pcts : r > p => q <= r}
Below(p) == {q \in Pcts : q < p /\ \A r \in Pcts : r < p => q >= r}

\* A caller's second call, on the same collection, with one of the two
\* settings loosened to the next value and the other setting unchanged.
Loosen ==
    /\ pc = "done"
    /\ run = 1
    /\ \/ /\ area_tol_pct' \in Above(area_tol_pct)
          /\ UNCHANGED overlap_pct_threshold
       \/ /\ overlap_pct_threshold' \in Below(overlap_pct_threshold)
          /\ UNCHANGED area_tol_pct
    /\ df' = WithArea(gdf)
    /\ pc' = "seed"
    /\ i' = 0
    /\ candidate_idxs' = {}
    /\ group' = <<>>
    /\ to_remove' = {}
    /\ groups' = <<>>
    /\ removed_indices' = <<>>
    /\ removed_set' = {}
    /\ result_df' = NoFrame
    /\ report' = NoReport
    /\ run' = 2
    /\ first' = report
    /\ exact_tests' = {}
    /\ UNCHANGED <<gdf, keep_first, env>>

Scan ==
    \/ SkipConsumedSeed
    \/ QueryCandidates
    \/ SkipCandidate
    \/ SkipZeroArea
    \/ RejectAreaDiff
    \/ RejectEmpty
    \/ RejectOverlap
    \/ AcceptCandidate
    \/ CloseGroup

Next == Scan \/ Resolve

Spec == Init /\ [][Next]_vars

\* The geometries of the larger collections: a single atom, or two atoms of
\* positive area.
WideGeoms ==
    {g \in Geoms :
        \/ Cardinality(g) = 1
        \/ Cardinality(g) = 2 /\ \A a \in g : AtomArea(a) > 0}

\* Collections of up to one more feature than Init's.
InitWide ==
    /\ \E m \in 1..(MaxN + 1) : gdf \in Collections(m, WideGeoms)
    /\ area_tol_pct \in Pcts
    /\ overlap_pct_threshold \in Pcts
    /\ keep_first \in BOOLEAN
    /\ Enter(gdf)
    /\ Called(gdf)
    /\ run = 1
    /\ first = NoReport

SpecWide == InitWide /\ [][Next]_vars

NextRerun == Scan \/ Resolve \/ Rerun

SpecRerun == Init /\ [][NextRerun]_vars

NextLoosen == Scan \/ Resolve \/ Loosen

SpecLoosen == InitWide /\ [][NextLoosen]_vars

\* Collections whose attribute table has a column with the name of the cached
\* area column (line 157 assigns df["_area"], line 211 drops "_area"); row k
\* holds a value of its own in it.
ColumnCollections(m, G) ==
    {[k \in 0..(m - 1) |-> [geometry |-> geo[k], attrs |-> k, area |-> 10 + k]] :
        geo \in [0..(m - 1) -> G]}

InitColumns ==
    /\ \E m \in 1..MaxN : gdf \in ColumnCollections(m, WideGeoms)
    /\ area_tol_pct \in Pcts
    /\ overlap_pct_threshold \in Pcts
    /\ keep_first \in BOOLEAN
    /\ Enter(gdf)
    /\ Called(gdf)
    /\ run = 1
    /\ first = NoReport

SpecColumns == InitColumns /\ [][Next]_vars

\* The values a caller other than render_ui can pass for the two percentage
\* parameters (floats, lines 145-146): Pcts and a value on either side of it.
AnyPcts == Pcts \cup {-50, 150}

\* A call of _delete_duplicates with any values of its parameters.
InitCall ==
    /\ \E m \in 1..MaxN : gdf \in Collections(m, WideGeoms)
    /\ area_tol_pct \in AnyPcts
    /\ overlap_pct_threshold \in AnyPcts
    /\ keep_first \in BOOLEAN
    /\ Enter(gdf)
    /\ Called(gdf)
    /\ run = 1
    /\ first = NoReport

SpecCall == InitCall /\ [][Next]_vars

\* An index that returns a row more than once: a row of the seed's result
\* that the inner loop has already taken is in the rest of the list again.
RepeatCandidate ==
    /\ pc = "cand"
    /\ \E j \in SindexIntersection(df, Bounds(df[i].geometry)) \ candidate_idxs :
        candidate_idxs' = candidate_idxs \cup {j}
    /\ UNCHANGED <<gdf, params, df, pc, i, group, to_remove, groups, output,
                   run, first, env, exact_tests>>

NextRepeat == Scan \/ RepeatCandidate \/ Resolve

SpecRepeat == InitCall /\ [][NextRepeat]_vars

\* ------------------------------------------------ two interleaved calls
\* Two calls of _delete_duplicates (two sessions, each in its own thread, on
\* the tool instance of the registry) run interleaved.  The method reads and
\* writes its parameters and its locals only (lines 156-221 name no attribute
\* of self and no global), so a call is its frame.  The variables of the scan
\* hold the frame of the call that executes; other holds the frame of the
\* call that is suspended.

\* The geometries of the collections of two interleaved calls.
PairGeoms == {{1}, {3}, {2, 3}, {2, 4}}

\* The frame of the executing call.
Frame ==
    [gdf                   |-> gdf,
     area_tol_pct          |-> area_tol_pct,
     overlap_pct_threshold |-> overlap_pct_threshold,
     keep_first            |-> keep_first,
     geom_type             |-> geom_type,
     df                    |-> df,
     pc                    |-> pc,
     i                     |-> i,
     candidate_idxs        |-> candidate_idxs,
     group                 |-> group,
     to_remove             |-> to_remove,
     groups                |-> groups,
     removed_indices       |-> removed_indices,
     removed_set           |-> removed_set,
     result_df             |-> result_df,
     report                |-> report,
     exact_tests           |-> exact_tests]

\* The frame of a call at its entry (lines 156-162).
EntryFrame(frame, tol, thr, kf) ==
    [gdf                   |-> frame,
     area_tol_pct          |-> tol,
     overlap_pct_threshold |-> thr,
     keep_first            |-> kf,
     geom_type             |-> [k \in DOMAIN frame |-> "Polygon"],
     df                    |-> WithArea(frame),
     pc                    |-> "seed",
     i                     |-> 0,
     candidate_idxs        |-> {},
     group                 |-> <<>>,
     to_remove             |-> {},
     groups                |-> <<>>,
     removed_indices       |-> <<>>,
     removed_set           |-> {},
     result_df             |-> NoFrame,
     report                |-> NoReport,
     exact_tests           |-> {}]

\* Mutant: the consumed set is one object shared by the two calls (an
\* attribute of the tool instance).
Switch_SharedConsumed ==
    /\ other # NoRun
    /\ other' = Frame
    /\ gdf' = other.gdf
    /\ area_tol_pct' = other.area_tol_pct
    /\ overlap_pct_threshold' = other.overlap_pct_threshold
    /\ keep_first' = other.keep_first
    /\ geom_type' = other.geom_type
    /\ df' = other.df
    /\ pc' = other.pc
    /\ i' = other.i
    /\ candidate_idxs' = other.candidate_idxs
    /\ group' = other.group
    /\ groups' = other.groups
    /\ removed_indices' = other.removed_indices
    /\ removed_set' = other.removed_set
    /\ result_df' = other.result_df
    /\ report' = other.report
    /\ exact_tests' = other.exact_tests
    /\ UNCHANGED <<to_remove, run, first, uploaded_file, malformed, page,
                   merge_upload, merge_crs_option, merged_gdf, tools,
                   session_state, csv_upload, screen>>

\* The scheduler suspends the executing call and resumes the other.
Switch ==
    /\ other # NoRun
    /\ other' = Frame
    /\ gdf' = other.gdf
    /\ area_tol_pct' = other.area_tol_pct
    /\ overlap_pct_threshold' = other.overlap_pct_threshold
    /\ keep_first' = other.keep_first
    /\ geom_type' = other.geom_type
    /\ df' = other.df
    /\ pc' = other.pc
    /\ i' = other.i
    /\ candidate_idxs' = other.candidate_idxs
    /\ group' = other.group
    /\ to_remove' = other.to_remove
    /\ groups' = other.groups
    /\ removed_indices' = other.removed_indices
    /\ removed_set' = other.removed_set
    /\ result_df' = other.result_df
    /\ report' = other.report
    /\ exact_tests' = other.exact_tests
    /\ UNCHANGED <<run, first, uploaded_file, malformed, page, merge_upload,
                   merge_crs_option, merged_gdf, tools, session_state,
                   csv_upload, screen>>

\* Two calls at their entries, each on a collection of its own and with
\* thresholds of its own, one with keep_first true and one with false.
InitPair ==
    /\ \E m \in 1..(MaxN - 1) : gdf \in Collections(m, PairGeoms)
    /\ area_tol_pct \in Pcts
    /\ overlap_pct_threshold \in Pcts
    /\ keep_first \in BOOLEAN
    /\ Enter(gdf)
    /\ uploaded_file = "zip"
    /\ geom_type = [k \in DOMAIN gdf |-> "Polygon"]
    /\ malformed = {}
    /\ page = "none"
    /\ \E m \in 1..(MaxN - 1) :
        \E frame \in Collections(m, PairGeoms), tol, thr \in Pcts :
            other = EntryFrame(frame, tol, thr, ~keep_first)
    /\ merge_upload = <<>>
    /\ merge_crs_option = "first"
    /\ merged_gdf = [status |-> "none", crs |-> "None", coords |-> <<>>]
    /\ tools = <<>>
    /\ session_state = <<>>
    /\ csv_upload = [name |-> "None"]
    /\ screen = "none"
    /\ run = 1
    /\ first = NoReport

NextPair == Scan \/ Resolve \/ Switch

SpecPair == InitPair /\ [][NextPair]_vars

\* ------------------------------------------------------ the Merge tool
\* MergeShapefilesTool.render_ui (src/tools/merge_shapefiles.py) as far as
\* the coordinate reference systems go.  An uploaded collection is
\* [ok, crs, coords]: whether it loads, the CRS it declares ("None" without a
\* .prj), and the CRS its coordinates are in ("None": not known).  "custom"
\* is a CRS that has no EPSG code.

\* Largest number of uploaded collections.
MaxFiles == 3

CrsValues == {"None", "EPSG:4326", "EPSG:3857", "custom"}

CrsOptions == {"first", "last", "wgs84"}

MergeFiles ==
    {[ok |-> TRUE, crs |-> c, coords |-> c] : c \in CrsValues}
        \cup {[ok |-> FALSE, crs |-> "None", coords |-> "None"]}

NoMerge == [status |-> "none", crs |-> "None", coords |-> <<>>]
MergeError == [status |-> "error", crs |-> "None", coords |-> <<>>]

\* crs.to_epsg(): None for a CRS without an EPSG code
to_epsg(crs) ==
    CASE crs = "EPSG:4326" -> "4326"
      [] crs = "EPSG:3857" -> "3857"
      [] OTHER -> "None"

\* CRS.from_epsg(target_epsg)
from_epsg(code) == IF code = "4326" THEN "EPSG:4326" ELSE "EPSG:3857"

\* utils_geo.py lines 209-210
validate_crs_compatibility(gdfs) ==
    \A k \in 1..Len(gdfs) : gdfs[k].crs = gdfs[1].crs

\* merge_shapefiles.py lines 129-134
target_epsg(option, gdfs) ==
    IF option = "first"
    THEN (IF gdfs[1].crs # "None" THEN to_epsg(gdfs[1].crs) ELSE "None")
    ELSE IF option = "last"
    THEN (IF gdfs[Len(gdfs)].crs # "None" THEN to_epsg(gdfs[Len(gdfs)].crs)
          ELSE "None")
    ELSE "4326"

\* utils_geo.py lines 236-247, for a target that is not None and collections
\* that all declare a CRS
reproject_to_common_crs(gdfs, target) ==
    [k \in 1..Len(gdfs) |->
        IF gdfs[k].crs # from_epsg(target)
        THEN [ok |-> TRUE, crs |-> from_epsg(target), coords |-> from_epsg(target)]
        ELSE gdfs[k]]

Merged(gdfs, crs) ==
    [status |-> "ok", crs |-> crs, coords |-> [k \in 1..Len(gdfs) |-> gdfs[k].coords]]

\* lines 175-178: gpd.GeoDataFrame(pd.concat(gdfs, ignore_index=True),
\* crs=gdfs[0].crs).  What the concatenation does with collections that do
\* not declare one CRS depends on the version of the library: it raises, or
\* it concatenates the rows as they are; when only some declare a CRS the
\* result declares that CRS or the first collection's.
Concat(gdfs) ==
    LET declared == {gdfs[k].crs : k \in 1..Len(gdfs)} \ {"None"}
    IN  IF Cardinality(declared) >= 2
        THEN {MergeError, Merged(gdfs, gdfs[1].crs)}
        ELSE {Merged(gdfs, gdfs[1].crs)}
                \cup (IF gdfs[1].crs = "None"
                      THEN {Merged(gdfs, c) : c \in declared} ELSE {})

\* lines 161-178 and 226: the outcomes of a press of the Merge button
MergeOutcomes(gdfs, option) ==
    LET target == IF validate_crs_compatibility(gdfs) THEN "None"
                  ELSE target_epsg(option, gdfs)
    IN  IF target = "None" THEN Concat(gdfs)
        ELSE IF \E k \in 1..Len(gdfs) : gdfs[k].crs = "None"
        THEN {MergeError}
        ELSE Concat(reproject_to_common_crs(gdfs, target))

\* lines 53-89: files are put into the uploader
MergeUploadFiles ==
    /\ \E m \in 0..MaxFiles : merge_upload' \in [1..m -> MergeFiles]
    /\ merged_gdf' = NoMerge
    /\ UNCHANGED <<gdf, params, df, pc, scan, output, run, first,
                   uploaded_file, geom_type, malformed, page, exact_tests,
                   other, merge_crs_option, tools, session_state, csv_upload,
                   screen>>

\* lines 116-134: the radio is drawn (the CRSs differ) and an option is chosen
MergeChooseOption ==
    /\ Len(merge_upload) >= 2
    /\ \A k \in 1..Len(merge_upload) : merge_upload[k].ok
    /\ ~validate_crs_compatibility(merge_upload)
    /\ merge_crs_option' \in CrsOptions \ {merge_crs_option}
    /\ merged_gdf' = NoMerge
    /\ UNCHANGED <<gdf, params, df, pc, scan, output, run, first,
                   uploaded_file, geom_type, malformed, page, exact_tests,
                   other, merge_upload, tools, session_state, csv_upload,
                   screen>>

\* lines 61-226: the Merge button is pressed
MergeClick ==
    /\ Len(merge_upload) >= 2
    /\ \A k \in 1..Len(merge_upload) : merge_upload[k].ok
    /\ merged_gdf' \in MergeOutcomes(merge_upload, merge_crs_option)
    /\ UNCHANGED <<gdf, params, df, pc, scan, output, run, first,
                   uploaded_file, geom_type, malformed, page, exact_tests,
                   other, merge_upload, merge_crs_option, tools,
                   session_state, csv_upload, screen>>

NextMerge == MergeUploadFiles \/ MergeChooseOption \/ MergeClick

\* -------------------------------------------------------------- render_ui
\* page is what the latest run of render_ui has drawn below the uploader:
\*   "upload"      nothing (line 43)
\*   "load_error"  the loader's message as an error (line 48)
\*   "type_error"  the info block and the geometry-type error (line 65)
\*   "settings"    the settings and the run button, not pressed
\*   "running"     the button is pressed and _delete_duplicates is executing
\*   "result"      the metrics, the details and the two downloads (107-137)
\*   "run_error"   the settings, the button and the error of line 140
\*   "none"        _delete_duplicates is called without render_ui

\* The geometry types of an uploaded collection of m features: all polygons,
\* a multi-polygon among polygons, or a point among polygons.
TypeChoices(m) ==
    {[k \in 0..(m - 1) |-> "Polygon"],
     [k \in 0..(m - 1) |-> IF k = 0 THEN "MultiPolygon" ELSE "Polygon"],
     [k \in 0..(m - 1) |-> IF k = m - 1 THEN "Point" ELSE "Polygon"]}

\* At most one feature of an upload has a geometry that the geometry engine
\* may refuse to intersect.
MalformedChoices(m) == {{}} \cup {{k} : k \in 0..(m - 1)}

\* No call of _delete_duplicates is executing.
Settled == pc \in {"idle", "done", "raised"} /\ page # "running"

\* A run of render_ui that does not reach line 100 leaves no call behind.
Forget ==
    /\ df' = NoFrame
    /\ pc' = "idle"
    /\ i' = 0
    /\ candidate_idxs' = {}
    /\ group' = <<>>
    /\ to_remove' = {}
    /\ groups' = <<>>
    /\ removed_indices' = <<>>
    /\ removed_set' = {}
    /\ result_df' = NoFrame
    /\ report' = NoReport
    /\ exact_tests' = {}

\* lines 36-43: the uploader is empty (the user has removed the upload, if
\* there was one; a new upload is put into the empty uploader)
RenderNoFile ==
    /\ Settled
    /\ uploaded_file' = "none"
    /\ gdf' = NoFrame
    /\ geom_type' = <<>>
    /\ malformed' = {}
    /\ page' = "upload"
    /\ Forget
    /\ UNCHANGED <<params, run, first, app>>

\* lines 36-49: get_gdf_from_upload returns (None, msg)
RenderLoadError ==
    /\ Settled
    /\ uploaded_file = "none"
    /\ uploaded_file' = "unreadable"
    /\ gdf' = NoFrame
    /\ geom_type' = <<>>
    /\ malformed' = {}
    /\ page' = "load_error"
    /\ Forget
    /\ UNCHANGED <<params, run, first, app>>

\* lines 36-66: the collection loads and has a geometry type that is not a
\* polygon type
RenderTypeError ==
    /\ Settled
    /\ uploaded_file = "none"
    /\ \E m \in 1..MaxN :
        /\ gdf' \in Collections(m, WideGeoms)
        /\ geom_type' \in TypeChoices(m)
        /\ malformed' \in MalformedChoices(m)
    /\ ~OnlyPolygons(geom_type')
    /\ uploaded_file' = "zip"
    /\ page' = "type_error"
    /\ Forget
    /\ UNCHANGED <<params, run, first, app>>

\* lines 36-98: the collection loads, has polygon types only, and the button
\* is not pressed
RenderSettings ==
    /\ Settled
    /\ uploaded_file = "none"
    /\ \E m \in 1..MaxN :
        /\ gdf' \in Collections(m, WideGeoms)
        /\ geom_type' \in TypeChoices(m)
        /\ malformed' \in MalformedChoices(m)
    /\ OnlyPolygons(geom_type')
    /\ uploaded_file' = "zip"
    /\ page' = "settings"
    /\ Forget
    /\ UNCHANGED <<params, run, first, app>>

\* lines 36-105 and 156-162: the button, drawn by the previous run of
\* render_ui, is pressed; the run of render_ui loads the same upload, passes
\* the checks of lines 42, 47 and 62 and calls _delete_duplicates with the
\* values of the three settings.
ClickRun ==
    /\ Settled
    /\ page \in {"settings", "result", "run_error"}
    /\ uploaded_file = "zip"
    /\ gdf # NoFrame
    /\ OnlyPolygons(geom_type)
    /\ area_tol_pct' \in Pcts
    /\ overlap_pct_threshold' \in Pcts
    /\ keep_first' \in BOOLEAN
    /\ df' = WithArea(gdf)
    /\ pc' = "seed"
    /\ i' = 0
    /\ candidate_idxs' = {}
    /\ group' = <<>>
    /\ to_remove' = {}
    /\ groups' = <<>>
    /\ removed_indices' = <<>>
    /\ removed_set' = {}
    /\ result_df' = NoFrame
    /\ report' = NoReport
    /\ exact_tests' = {}
    /\ page' = "running"
    /\ UNCHANGED <<gdf, uploaded_file, geom_type, malformed, run, first, app>>

\* Mutant: the exception is swallowed and the features not consumed so far
\* are returned.
RaiseGeometryError_Partial ==
    /\ pc = "cand"
    /\ \E j \in candidate_idxs :
        /\ ExactTested(j)
        /\ i \in malformed \/ j \in malformed
        /\ exact_tests' = exact_tests \cup {<<i, j>>}
    /\ pc' = "raised"
    /\ result_df' = Filtered(df, KeptPositions(n, to_remove))
    /\ UNCHANGED <<gdf, params, df, i, candidate_idxs, group, to_remove,
                   groups, removed_indices, removed_set, report, run, first,
                   env>>

\* line 188: geom_i.intersection(geom_j) raises; the exception leaves
\* _delete_duplicates, whose locals are kept here as they were.
RaiseGeometryError ==
    /\ pc = "cand"
    /\ \E j \in candidate_idxs :
        /\ ExactTested(j)
        /\ i \in malformed \/ j \in malformed
        /\ exact_tests' = exact_tests \cup {<<i, j>>}
    /\ pc' = "raised"
    /\ UNCHANGED <<gdf, params, df, i, candidate_idxs, group, to_remove,
                   groups, output, run, first, env>>

\* lines 107-137: the call returned
ShowResult ==
    /\ pc = "done"
    /\ page = "running"
    /\ page' = "result"
    /\ UNCHANGED <<gdf, params, df, pc, scan, output, run, first,
                   uploaded_file, geom_type, malformed, exact_tests, app>>

\* lines 139-140: the call raised
ShowError ==
    /\ pc = "raised"
    /\ page = "running"
    /\ page' = "run_error"
    /\ UNCHANGED <<gdf, params, df, pc, scan, output, run, first,
                   uploaded_file, geom_type, malformed, exact_tests, app>>

\* render_ui before any upload, the settings at their defaults (lines 78, 87
\* and 95).
InitUI ==
    /\ Elsewhere
    /\ uploaded_file = "none"
    /\ gdf = NoFrame
    /\ geom_type = <<>>
    /\ malformed = {}
    /\ page = "upload"
    /\ area_tol_pct = 0
    /\ overlap_pct_threshold = 100
    /\ keep_first = TRUE
    /\ df = NoFrame
    /\ pc = "idle"
    /\ i = 0
    /\ candidate_idxs = {}
    /\ group = <<>>
    /\ to_remove = {}
    /\ groups = <<>>
    /\ removed_indices = <<>>
    /\ removed_set = {}
    /\ result_df = NoFrame
    /\ report = NoReport
    /\ exact_tests = {}
    /\ run = 1
    /\ first = NoReport

NextUI ==
    \/ RenderNoFile
    \/ RenderLoadError
    \/ RenderTypeError
    \/ RenderSettings
    \/ ClickRun
    \/ Scan
    \/ RaiseGeometryError
    \/ Resolve
    \/ ShowResult
    \/ ShowError

SpecUI == InitUI /\ [][NextUI]_vars

\* The Merge tool, from the application's start.
SpecMerge == InitUI /\ [][NextMerge]_vars

\* ------------------------------------------ navigation and the CSV tool
\* main() (src/app.py), render_homepage (src/ui/homepage.py) and
\* ShapefileToCSVTool.render_ui (src/tools/shapefile_to_csv.py).  A step is a
\* click of the user and the runs of the script that answer it (a button
\* handler stores the selection and calls st.rerun()).  A dict is the
\* sequence of its (key, value) pairs in insertion order; session_state is a
\* function on the keys it holds; Python's None is "None".

\* Mutant: the tools are registered under keys that start at tool_1.
Registrations_FromOne ==
    <<[key |-> "tool_1", tool |-> "ShapefileToCSVTool"],
      [key |-> "tool_2", tool |-> "MergeShapefilesTool"],
      [key |-> "tool_3", tool |-> "AddShapefilesTool"],
      [key |-> "tool_4", tool |-> "ReprojectShapefileTool"],
      [key |-> "tool_5", tool |-> "ExcelToCSVTool"],
      [key |-> "tool_6", tool |-> "DeleteDuplicateGeometriesTool"]>>

\* app.py lines 96-101, in order
Registrations ==
    <<[key |-> "tool_0", tool |-> "ShapefileToCSVTool"],
      [key |-> "tool_1", tool |-> "MergeShapefilesTool"],
      [key |-> "tool_2", tool |-> "AddShapefilesTool"],
      [key |-> "tool_3", tool |-> "ReprojectShapefileTool"],
      [key |-> "tool_4", tool |-> "ExcelToCSVTool"],
      [key |-> "tool_5", tool |-> "DeleteDuplicateGeometriesTool"]>>

Keys(d) == {d[k].key : k \in 1..Len(d)}

\* ToolRegistry.register_tool: self._tools[key] = tool (an existing key keeps
\* its place in the dict, a new key is added at the end)
register_tool(d, key, tool) ==
    IF key \in Keys(d)
    THEN [k \in 1..Len(d) |->
            IF d[k].key = key THEN [key |-> key, tool |-> tool] ELSE d[k]]
    ELSE Append(d, [key |-> key, tool |-> tool])

RECURSIVE RegisterAll(_, _)
RegisterAll(d, regs) ==
    IF regs = <<>> THEN d
    ELSE RegisterAll(register_tool(d, Head(regs).key, Head(regs).tool),
                     Tail(regs))

\* initialize_tools, on the singleton's dict
initialize_tools(d) == RegisterAll(d, Registrations)

\* ToolRegistry.get_tool: self._tools.get(key)
get_tool(d, key) ==
    IF key \in Keys(d)
    THEN (CHOOSE e \in {d[k] : k \in 1..Len(d)} : e.key = key).tool
    ELSE "None"

\* ToolRegistry.get_tools_list: list(self._tools.values())
get_tools_list(d) == [k \in 1..Len(d) |-> d[k].tool]

\* homepage.py line 60: the key of the card of the tool at position
\* tool_idx (0-based) of the list
CardKey(tool_idx) == "tool_" \o ToString(tool_idx)

\* session_state with key set to value
Store(ss, key, value) ==
    [k \in DOMAIN ss \cup {key} |-> IF k = key THEN value ELSE ss[k]]

\* initialize_session_state
initialize_session_state(ss) ==
    IF "selected_tool" \notin DOMAIN ss THEN Store(ss, "selected_tool", "None")
    ELSE ss

\* The names and the contents of the files a user has; the content "bad" does
\* not load.
FileNames == {"a.zip", "b.zip", "c.zip"}
FileContents == {"c1", "c2", "c3", "bad"}
NoUpload == [name |-> "None"]
Uploads == {[name |-> f, content |-> c] : f \in FileNames, c \in FileContents}

\* get_gdf_from_upload: the collection of a content, None if it does not load
Load(content) == IF content = "bad" THEN "None" ELSE content

\* the columns of a loaded collection except geometry (line 73)
AttrColumns(gdfv) ==
    IF gdfv = "c1" THEN {"id"}
    ELSE IF gdfv = "c2" THEN {"id", "name"}
    ELSE {"name"}

\* shapefile_to_csv.py lines 42-45
CsvInitialize(ss) ==
    IF "csv_tool_gdf" \notin DOMAIN ss
    THEN Store(Store(Store(ss, "csv_tool_gdf", "None"),
                     "csv_tool_filename", "None"),
               "csv_tool_attr_columns", {})
    ELSE ss

\* shapefile_to_csv.py lines 57-82 and 205-210
CsvProcess(ss, upload) ==
    IF upload # NoUpload
    THEN IF ss["csv_tool_filename"] # upload.name
         THEN IF Load(upload.content) = "None"
              THEN Store(Store(ss, "csv_tool_gdf", "None"),
                         "csv_tool_filename", "None")
              ELSE Store(Store(Store(ss, "csv_tool_gdf", Load(upload.content)),
                               "csv_tool_filename", upload.name),
                         "csv_tool_attr_columns",
                         AttrColumns(Load(upload.content)))
         ELSE ss
    ELSE IF ss["csv_tool_gdf"] # "None"
         THEN Store(Store(Store(ss, "csv_tool_gdf", "None"),
                          "csv_tool_filename", "None"),
                    "csv_tool_attr_columns", {})
         ELSE ss

\* ShapefileToCSVTool.render_ui, as far as session_state goes
CsvRender(ss, upload) == CsvProcess(CsvInitialize(ss), upload)

\* main() with selected_tool = sel: the registry is initialised again, the
\* main area shows the homepage, the selected tool, or "Tool not found!"; a
\* run that does not draw the CSV tool drops the state of its uploader.
RunMain(sel, upload) ==
    LET ss == Store(initialize_session_state(session_state),
                    "selected_tool", sel)
        d  == initialize_tools(tools)
    IN  /\ tools' = d
        /\ screen' = IF sel = "None" THEN "home"
                     ELSE IF get_tool(d, sel) # "None" THEN sel
                     ELSE "not_found"
        /\ IF get_tool(d, sel) = "ShapefileToCSVTool"
           THEN /\ session_state' = CsvRender(ss, upload)
                /\ csv_upload' = upload
           ELSE /\ session_state' = ss
                /\ csv_upload' = NoUpload
        /\ UNCHANGED <<gdf, params, df, pc, scan, output, run, first,
                       uploaded_file, geom_type, malformed, page, exact_tests,
                       other, merge_upload, merge_crs_option, merged_gdf>>

\* app.py lines 137-139: the Home button of the sidebar
ClickHome == RunMain("None", NoUpload)

\* app.py lines 144-154: a tool button of the sidebar
ClickSidebar ==
    \E key \in Keys(tools) : RunMain(key, NoUpload)

\* homepage.py lines 46-61 and 108-110: the button of a card of the homepage
ClickCard ==
    /\ screen = "home"
    /\ \E tool_idx \in 0..(Len(get_tools_list(tools)) - 1) :
        RunMain(CardKey(tool_idx), NoUpload)

\* app.py lines 214-221: the button below the main area (Back to Home below a
\* tool, Go to Home below "Tool not found!")
ClickBack ==
    /\ screen \notin {"home", "none"}
    /\ RunMain("None", NoUpload)

\* shapefile_to_csv.py lines 49-82: a file is put into the uploader of the
\* CSV tool, in place of the file it holds if it holds one
CsvPutFile ==
    /\ get_tool(tools, screen) = "ShapefileToCSVTool"
    /\ \E upload \in Uploads \ {csv_upload} :
        RunMain(session_state["selected_tool"], upload)

\* shapefile_to_csv.py lines 49-57 and 205-210: the file is removed from the
\* uploader
CsvRemoveFile ==
    /\ get_tool(tools, screen) = "ShapefileToCSVTool"
    /\ csv_upload # NoUpload
    /\ RunMain(session_state["selected_tool"], NoUpload)

\* The application after the first run of the script: the homepage.
InitApp ==
    /\ other = NoRun
    /\ merge_upload = <<>>
    /\ merge_crs_option = "first"
    /\ merged_gdf = NoMerge
    /\ tools = initialize_tools(<<>>)
    /\ session_state = initialize_session_state(<<>>)
    /\ csv_upload = NoUpload
    /\ screen = "home"
    /\ uploaded_file = "none"
    /\ gdf = NoFrame
    /\ geom_type = <<>>
    /\ malformed = {}
    /\ page = "upload"
    /\ area_tol_pct = 0
    /\ overlap_pct_threshold = 100
    /\ keep_first = TRUE
    /\ df = NoFrame
    /\ pc = "idle"
    /\ i = 0
    /\ candidate_idxs = {}
    /\ group = <<>>
    /\ to_remove = {}
    /\ groups = <<>>
    /\ removed_indices = <<>>
    /\ removed_set = {}
    /\ result_df = NoFrame
    /\ report = NoReport
    /\ exact_tests = {}
    /\ run = 1
    /\ first = NoReport

NextApp ==
    \/ ClickHome
    \/ ClickSidebar
    \/ ClickCard
    \/ ClickBack
    \/ CsvPutFile
    \/ CsvRemoveFile

SpecApp == InitApp /\ [][NextApp]_vars

\* ================================================================ claims
\* The input indices whose row is in the returned collection.
Survivors ==
    {k \in DOMAIN df :
        \E r \in DOMAIN result_df : result_df[r].attrs = df[k].attrs}

Members(grp) == SeqToSet(grp)

Grouped == UNION {Members(groups[g]) : g \in 1..Len(groups)}

Done == pc = "done"

\* C1: after a run, every recorded group has exactly one member in the
\* returned collection and its other members are removed, and every feature
\* that is in no recorded group is in the returned collection.
C1_OneSurvivorPerGroup ==
    Done =>
        /\ \A g \in 1..Len(groups) :
            /\ Cardinality(Members(groups[g]) \cap Survivors) = 1
            /\ Members(groups[g]) \ Survivors \subseteq removed_set
        /\ (DOMAIN df) \ Grouped \subseteq Survivors

\* C1 witness: a finished keep-last run on three features with one recorded
\* group of two and one feature outside every group.
C1_Witness ==
    /\ Done
    /\ ~keep_first
    /\ n = 3
    /\ Len(groups) = 1
    /\ Len(groups[1]) = 2
    /\ Cardinality(Survivors) = 2

\* C2: with keep_first the survivor of every recorded group is the group's
\* minimum index, whatever the order of the candidates; two identical
\* features of positive area leave feature 0 and remove feature 1.
C2_KeepFirstSurvivorIsMin ==
    (Done /\ keep_first) =>
        /\ \A g \in 1..Len(groups) :
            Members(groups[g]) \cap Survivors = {SetMin(Members(groups[g]))}
        /\ (/\ n = 2
            /\ df[0].geometry = df[1].geometry
            /\ df[0].area > 0)
                => (Survivors = {0} /\ removed_set = {1})

\* C2 witness: a finished keep-first run whose group was filled in descending
\* candidate order.
C2_Witness ==
    /\ Done
    /\ keep_first
    /\ Len(groups) = 1
    /\ groups[1] = <<0, 2, 1>>
    /\ Survivors = {0}

\* C3 (as claimed): with keep_first = false the survivor of every recorded
\* group is the group's maximum index, whatever the order of the candidates.
C3_KeepLastSurvivorIsMax ==
    (Done /\ ~keep_first) =>
        \A g \in 1..Len(groups) :
            Members(groups[g]) \cap Survivors = {SetMax(Members(groups[g]))}

\* C4 (as claimed): a second run on the returned collection, with the same
\* parameters, removes nothing and records no group, for either keep_first.
C4_RerunRemovesNothing ==
    (Done /\ run = 2) => (report.removed = 0 /\ report.groups = 0)

\* C4 (amended): with keep_first = true, a second run on the returned
\* collection, with the same parameters, removes nothing and records no group.
C4_KeepFirstRerunRemovesNothing ==
    (Done /\ run = 2 /\ keep_first) =>
        (report.removed = 0 /\ report.groups = 0)

\* C4 witness: a finished keep-first second run on two or more survivors of a
\* first run that removed a feature.
C4_Witness ==
    /\ Done
    /\ run = 2
    /\ keep_first
    /\ first.removed >= 1
    /\ report.total >= 2
    /\ report.removed = 0

\* C5 (as claimed): for the same collection and keep_first, a run with one
\* setting loosened (area_tol_pct raised or overlap_pct_threshold lowered, the
\* other unchanged) never removes fewer features than the run before it.
C5_LooserNeverRemovesFewer ==
    (Done /\ run = 2) => report.removed >= first.removed

\* C5 (amended): the looser run never removes fewer features when the
\* collection has at most three features, and for any collection it removes
\* at least one feature whenever the stricter run removed one.
C5_LooserStillRemoves ==
    (Done /\ run = 2) =>
        /\ report.total <= 3 => report.removed >= first.removed
        /\ first.removed > 0 => report.removed > 0

\* C5 witness: on four features the stricter run removed two and the looser
\* run removes one.
C5_Witness ==
    /\ Done
    /\ run = 2
    /\ report.total = 4
    /\ first.removed = 2
    /\ report.removed = 1

\* The recorded groups and the group being built.
AllGroups == IF group = <<>> THEN groups ELSE Append(groups, group)

NoRepeat(s) == Cardinality(SeqToSet(s)) = Len(s)

\* C6: at every step of the scan and after it, no index is twice in a group,
\* no index is in two groups (as seed or as accepted member), and no index is
\* listed as removed twice.
C6_GroupsDisjoint ==
    /\ \A g \in 1..Len(AllGroups) : NoRepeat(AllGroups[g])
    /\ \A g, h \in 1..Len(AllGroups) :
        g # h => Members(AllGroups[g]) \cap Members(AllGroups[h]) = {}
    /\ NoRepeat(removed_indices)
    /\ Done => report.removed = Len(removed_indices)

\* C6 witness: a finished run that recorded two groups.
C6_Witness ==
    /\ Done
    /\ Len(groups) = 2
    /\ Len(removed_indices) = 2

\* C7: after a run every input index is either a survivor or removed, and
\* none is both; the returned rows are as many as the survivors.
C7_SurvivorsOrRemoved ==
    Done =>
        /\ Survivors \cup removed_set = DOMAIN df
        /\ Survivors \cap removed_set = {}
        /\ Cardinality(DOMAIN result_df) = Cardinality(Survivors)

\* C7 witness: a finished run on three features that removed index 0 and
\* kept the other two.
C7_Witness ==
    /\ Done
    /\ n = 3
    /\ removed_set = {0}
    /\ Survivors = {1, 2}

\* C8: the report of every run has remaining + removed = total, with total
\* the number of input features, removed the number of distinct removed
\* indices and remaining the size of the returned collection.
C8_Conservation ==
    Done =>
        /\ report.remaining + report.removed = report.total
        /\ report.total = Cardinality(DOMAIN gdf)
        /\ report.removed = Cardinality(removed_set)
        /\ report.remaining = Cardinality(DOMAIN result_df)

\* C8 witness: a finished run that removed two of three features.
C8_Witness ==
    /\ Done
    /\ report.total = 3
    /\ report.removed = 2
    /\ report.remaining = 1

ZeroAreaRows == {k \in DOMAIN df : df[k].area = 0}

\* C9: a feature of area 0 is never in a group, as a seed that accepted a
\* candidate or as an accepted candidate, is never consumed, and is in the
\* returned collection.
C9_ZeroAreaNeverGrouped ==
    \A k \in ZeroAreaRows :
        /\ k \notin to_remove
        /\ k \notin Grouped
        /\ (group # <<>> /\ k \in Members(group)) => group = <<k>>
        /\ Done => (k \in Survivors /\ k \notin removed_set)

\* C9 witness: a finished run with overlap threshold 0 on a collection with
\* two identical features of area 0 and a feature of positive area that
\* contains them.
C9_Witness ==
    /\ Done
    /\ overlap_pct_threshold = 0
    /\ area_tol_pct = 100
    /\ n = 3
    /\ df[0].area = 0
    /\ df[1].geometry = df[0].geometry
    /\ df[2].area > 0
    /\ df[0].geometry \subseteq df[2].geometry

\* The pairwise criterion as the claim states it, the intersection area of
\* disjoint geometries being 0.
ClaimedCriterion(k, j) ==
    LET m == Min2(df[k].area, df[j].area)
    IN  /\ Abs(df[k].area - df[j].area) * 100 <= area_tol_pct * m
        /\ Area(Intersection(df[k].geometry, df[j].geometry)) * 100
                >= overlap_pct_threshold * m

\* The candidate the step takes from candidate_idxs is an unconsumed j > i
\* and both areas are non-zero.
TakesEligible(j) ==
    /\ pc = "cand"
    /\ j \in candidate_idxs
    /\ j \notin candidate_idxs'
    /\ j > i
    /\ j \notin to_remove
    /\ df[i].area # 0
    /\ df[j].area # 0

AcceptedInStep(j) == group' = Append(group, j) /\ to_remove' = to_remove \cup {j}

C11_ResultIsFilteredInput ==
    Done =>
        \E f \in [DOMAIN result_df -> DOMAIN gdf] :
            /\ {f[r] : r \in DOMAIN result_df} = DOMAIN gdf \ removed_set
            /\ \A r, q \in DOMAIN result_df : r < q => f[r] < f[q]
            /\ \A r \in DOMAIN result_df : result_df[r] = gdf[f[r]]

\* The loaded collection has a feature whose type is not a polygon type.
HasNonPolygon ==
    /\ uploaded_file = "zip"
    /\ \E k \in DOMAIN geom_type : geom_type[k] \notin {"Polygon", "MultiPolygon"}

\* No grouping work has been done and nothing has been returned.
NothingDone ==
    /\ pc = "idle"
    /\ candidate_idxs = {}
    /\ exact_tests = {}
    /\ to_remove = {}
    /\ group = <<>>
    /\ groups = <<>>
    /\ result_df = NoFrame
    /\ report = NoReport

\* C12: when the collection has a geometry that is neither a Polygon nor a
\* MultiPolygon, the operation ends with the geometry-type error before any
\* grouping work: no candidate lookup, no pair test, no consumed mark, no
\* returned collection and no report.
C12_NonPolygonRejected ==
    HasNonPolygon => NothingDone /\ page = "type_error"

C12_Witness ==
    /\ HasNonPolygon
    /\ page = "type_error"
    /\ Cardinality(DOMAIN gdf) >= 2

\* C13: when one of the two percentages is outside [0, 100], the call is
\* rejected before the scan begins: no feature is scanned, nothing is
\* consumed, and no collection and no report are returned.
C13_OutOfRangeRejected ==
    (area_tol_pct \notin 0..100 \/ overlap_pct_threshold \notin 0..100) =>
        /\ pc = "seed"
        /\ i = 0
        /\ exact_tests = {}
        /\ to_remove = {}
        /\ result_df = NoFrame
        /\ report = NoReport

\* C14: when the intersection of a pair raises during the scan, the run is
\* aborted: no collection and no report are returned, whatever was grouped
\* before, and the page shows the error and never a result.
C14_RaiseAbortsRun ==
    /\ pc = "raised" =>
            /\ result_df = NoFrame
            /\ report = NoReport
            /\ page \in {"running", "run_error"}
    /\ page = "run_error" => pc = "raised"
    /\ page = "result" => pc = "done"

C14_Witness ==
    /\ page = "run_error"
    /\ pc = "raised"
    /\ to_remove # {}

\* C17: in the UI flow, an upload that cannot be loaded or that has a
\* non-polygon geometry is answered with an error, and the run of the page
\* ends there: the settings and the button are not drawn, _delete_duplicates
\* is not called, and no metrics and no download are drawn.
C17_PreconditionFailureEndsRun ==
    (uploaded_file = "unreadable" \/ HasNonPolygon) =>
        /\ page = (IF uploaded_file = "unreadable" THEN "load_error"
                   ELSE "type_error")
        /\ pc = "idle"
        /\ df = NoFrame
        /\ report = NoReport
        /\ ~ENABLED ClickRun

C17_Witness ==
    /\ uploaded_file = "unreadable"
    /\ page = "load_error"
    /\ area_tol_pct # 0

\* Features k and j satisfy the duplicate criterion under the thresholds of
\* the run: both areas non-zero, area difference within the tolerance,
\* non-empty intersection, overlap at least the threshold.
DuplicatePair(k, j) ==
    /\ df[k].area # 0
    /\ df[j].area # 0
    /\ (df[k].geometry \cap df[j].geometry) # {}
    /\ ClaimedCriterion(k, j)

AllPairsDuplicate ==
    \A k, j \in DOMAIN df : k < j => DuplicatePair(k, j)

\* C15: when the collection has n >= 2 features and every two of them
\* satisfy the duplicate criterion, the run records exactly one group, of all
\* n features, removes n - 1 of them and returns 1, whatever keep_first is.
C15_AllDuplicatesOneGroup ==
    (Done /\ n >= 2 /\ AllPairsDuplicate) =>
        /\ Len(groups) = 1
        /\ Members(groups[1]) = DOMAIN df
        /\ Len(groups[1]) = n
        /\ report.groups = 1
        /\ report.removed = n - 1
        /\ report.remaining = 1
        /\ Cardinality(DOMAIN result_df) = 1

\* C15 witness: three pairwise duplicates that are not three copies of one
\* geometry, resolved with keep_first false.
C15_Witness ==
    /\ Done
    /\ n = 3
    /\ AllPairsDuplicate
    /\ ~keep_first
    /\ df[0].geometry # df[1].geometry
    /\ df[1].geometry # df[2].geometry

NoPairIntersects ==
    \A k, j \in DOMAIN df :
        k # j => (df[k].geometry \cap df[j].geometry) = {}

\* C16: when no two features have a non-empty intersection, the run records
\* no group, removes nothing and returns all n features, for every pair of
\* thresholds and both values of keep_first.
C16_DisjointNothingRemoved ==
    (Done /\ NoPairIntersects) =>
        /\ groups = <<>>
        /\ removed_set = {}
        /\ report.groups = 0
        /\ report.removed = 0
        /\ report.total = n
        /\ report.remaining = n
        /\ Cardinality(DOMAIN result_df) = n

\* C16 witness: the loosest thresholds, and two disjoint features of equal
\* non-zero area of which one lies inside the bounds of the other, so that
\* the pair reaches the exact intersection.
C16_Witness ==
    /\ Done
    /\ NoPairIntersects
    /\ n = 3
    /\ area_tol_pct = 100
    /\ overlap_pct_threshold = 0
    /\ <<0, 1>> \in exact_tests

\* Features 0 < 1 < 2 are the whole collection; 0-1 and 1-2 satisfy the
\* duplicate criterion and 0-2 does not.
Chain ==
    /\ n = 3
    /\ DuplicatePair(0, 1)
    /\ DuplicatePair(1, 2)
    /\ ~DuplicatePair(0, 2)

\* C18 (as claimed): a chain collapses into one group seeded by the first
\* feature and containing all three, and two of the three are removed.
C18_ChainCollapses ==
    (Done /\ Chain) =>
        /\ Len(groups) = 1
        /\ groups[1][1] = 0
        /\ Members(groups[1]) = {0, 1, 2}
        /\ report.removed = 2

\* C18 (amended): a chain yields one group, of the first feature and the
\* second; the pair of the second and the third is never tested; the third
\* feature is in no group and is returned; one of the three is removed.
C18_ChainStopsAtSeed ==
    (Done /\ Chain) =>
        /\ groups = << <<0, 1>> >>
        /\ \A t \in exact_tests : t[1] = 0
        /\ report.removed = 1
        /\ report.remaining = 2
        /\ 2 \in Survivors

C18_Witness ==
    /\ Done
    /\ Chain
    /\ <<0, 2>> \in exact_tests

\* C19: in every group, recorded or being built, the first member (the
\* seed) is the smallest and every other member satisfies the whole pairwise
\* criterion against the seed; the first feature of every pair that reached
\* the exact test is a seed, never a consumed (non-seed) member.
C19_MembersPassedAgainstSeed ==
    /\ \A g \in 1..Len(AllGroups) :
            \A k \in 2..Len(AllGroups[g]) :
                /\ AllGroups[g][1] < AllGroups[g][k]
                /\ DuplicatePair(AllGroups[g][1], AllGroups[g][k])
    /\ \A t \in exact_tests : t[1] \notin to_remove /\ t[1] < t[2]

\* C19 witness: a recorded group of three whose two non-seed members do not
\* satisfy the criterion against each other.
C19_Witness ==
    /\ Done
    /\ \E g \in 1..Len(groups) :
            /\ Len(groups[g]) = 3
            /\ ~DuplicatePair(groups[g][2], groups[g][3])
            /\ ~DuplicatePair(groups[g][3], groups[g][2])

\* C20: a candidate is in the consumed set from the step that accepts it,
\* and the consumed set never loses a member during the run; a consumed
\* feature is skipped when the outer loop reaches it (no candidate lookup, no
\* group), is never appended to a group again, and is in no pair that
\* reaches the exact intersection test afterwards.
C20_ConsumptionPermanent ==
    [][/\ to_remove \subseteq to_remove'
       /\ \A k \in 2..Len(group') : group'[k] \in to_remove'
       /\ \A j \in to_remove :
            /\ (pc = "seed" /\ i = j) =>
                    /\ pc' = "seed"
                    /\ i' = j + 1
                    /\ UNCHANGED <<candidate_idxs, group, groups, exact_tests>>
            /\ group' # Append(group, j)
            /\ \A t \in exact_tests' \ exact_tests : t[1] # j /\ t[2] # j]_vars

\* C20 witness: a consumed feature is among the candidates of a later seed.
C20_Witness ==
    /\ pc = "cand"
    /\ \E j \in to_remove : j \in candidate_idxs /\ j > i

\* ---- the outcome of the scan as a function of the collection and the
\* ---- thresholds, each seed tested against every later feature

\* The features seed k takes when the features of consumed are consumed.
TakenBy(k, consumed) ==
    {j \in DOMAIN df : j > k /\ j \notin consumed /\ DuplicatePair(k, j)}

\* The member sets of the groups of seeds k, k + 1, ...
RECURSIVE GroupSetsFrom(_, _)
GroupSetsFrom(k, consumed) ==
    IF k \notin DOMAIN df THEN {}
    ELSE IF k \in consumed \/ TakenBy(k, consumed) = {}
         THEN GroupSetsFrom(k + 1, consumed)
         ELSE {{k} \cup TakenBy(k, consumed)}
                \cup GroupSetsFrom(k + 1, consumed \cup TakenBy(k, consumed))

GroupSets == GroupSetsFrom(0, {})

\* The survivor of a group: its first member, or its member of largest index.
SurvivorOf(S) == IF keep_first THEN SetMin(S) ELSE SetMax(S)

ExpectedSurvivors ==
    DOMAIN df \ UNION {S \ {SurvivorOf(S)} : S \in GroupSets}

\* C21: the survivors and the report of a run are a function of the
\* collection, the thresholds and keep_first: whatever the order in which the
\* index returns the candidates of a seed, they are those of the scan that
\* takes the candidates in ascending order.
C21_OutcomeIndependentOfOrder ==
    Done =>
        /\ Survivors = ExpectedSurvivors
        /\ report = [total     |-> n,
                     removed   |-> n - Cardinality(ExpectedSurvivors),
                     remaining |-> Cardinality(ExpectedSurvivors),
                     groups    |-> Cardinality(GroupSets)]

\* C22: the groups the scan records, as member sets, and the number of
\* removed features are those of a scan that tests every seed against every
\* later feature without an index; a candidate whose bounds intersect the
\* seed's but whose geometry does not is in no group of that seed.
C22_PrefilterKeepsGrouping ==
    /\ Done =>
            /\ {Members(groups[g]) : g \in 1..Len(groups)} = GroupSets
            /\ report.removed = Cardinality(UNION GroupSets)
                                    - Cardinality(GroupSets)
    /\ \A g \in 1..Len(AllGroups) :
            \A k \in 2..Len(AllGroups[g]) :
                (df[AllGroups[g][1]].geometry
                    \cap df[AllGroups[g][k]].geometry) # {}

\* C22 witness: two recorded groups, and a tested pair whose bounds intersect
\* and whose geometries do not.
C22_Witness ==
    /\ Done
    /\ Len(groups) = 2
    /\ \E t \in exact_tests :
            (df[t[1]].geometry \cap df[t[2]].geometry) = {}

\* C23: a group is recorded exactly when its seed accepted a candidate:
\* every recorded group has at least two members and no member twice, also
\* when the index returns a row twice; the group of a seed is recorded when
\* the seed's candidates are exhausted if it has a member besides the seed and
\* is dropped otherwise; groups are recorded at no other step; and the
\* report's number of groups is the number of recorded groups.
C23_RecordedIffAccepted ==
    [][/\ \A g \in 1..Len(groups') :
            Len(groups'[g]) >= 2 /\ NoRepeat(groups'[g])
       /\ IF pc = "cand" /\ pc' = "seed"
          THEN IF \E j \in to_remove : j \in Members(group) /\ j # i
               THEN groups' = Append(groups, group)
               ELSE groups' = groups /\ group = <<i>>
          ELSE groups' = groups
       /\ pc' = "done" => report'.groups = Len(groups')]_vars

\* C23 witness: the index returns again a row that the seed has accepted.
C23_Witness ==
    /\ pc = "cand"
    /\ \E j \in candidate_idxs : j # i /\ j \in Members(group)
    /\ Len(group) = 3

\* The step takes candidate j and the pair (i, j) reaches the exact
\* intersection: j is a later, unconsumed row, both areas are non-zero and
\* their difference is within the tolerance.
TakesTested(j) ==
    /\ TakesEligible(j)
    /\ Abs(df[i].area - df[j].area) * 100
            <= area_tol_pct * Min2(df[i].area, df[j].area)

\* C24: every pair that reaches the exact test is the current seed i and a
\* candidate j > i; the seed index never decreases and after a seed's
\* candidates are exhausted the next index is the seed; and a pair that has
\* been tested, in either order, is not tested again in the run.
C24_OnlyLookAhead ==
    [][/\ \A t \in exact_tests' \ exact_tests :
            /\ t[1] = i
            /\ t[2] > i
            /\ pc = "cand"
            /\ t[2] \in candidate_idxs \ candidate_idxs'
       /\ \A j \in DOMAIN df :
            TakesTested(j) =>
                /\ <<i, j>> \notin exact_tests
                /\ <<j, i>> \notin exact_tests
                /\ <<i, j>> \in exact_tests'
       /\ i' = i \/ i' = i + 1
       /\ pc = "cand" => i \notin to_remove
       /\ exact_tests \subseteq exact_tests']_vars

\* C24 witness: a tested pair of an earlier seed is among the candidates of a
\* later seed in the opposite order.
C24_Witness ==
    /\ pc = "cand"
    /\ \E j \in candidate_idxs : <<j, i>> \in exact_tests

\* C26: after a run with keep_first true, no two features of the returned
\* collection satisfy the duplicate criterion with each other under the
\* thresholds of the run.
C26_KeepFirstResultDuplicateFree ==
    (Done /\ keep_first) =>
        \A k, j \in Survivors : k # j => ~DuplicatePair(k, j)

\* C26 witness: a run with keep_first true that removed a feature and
\* returned two features whose geometries intersect.
C26_Witness ==
    /\ Done
    /\ keep_first
    /\ removed_set # {}
    /\ \E k, j \in Survivors :
            k # j /\ (df[k].geometry \cap df[j].geometry) # {}

\* C27: a run never changes the caller's collection, and the returned
\* collection has exactly the columns of the caller's collection; the area
\* cache is a column of the internal copy only.
C27_InputUntouchedSameColumns ==
    [][/\ gdf' = gdf
       /\ pc' = "done" =>
            \A r \in DOMAIN result_df' :
                \A k \in DOMAIN gdf : DOMAIN result_df'[r] = DOMAIN gdf[k]]_vars

\* The outcome of the executing call is one that the call can have when it
\* executes alone: the groups are those of its collection and thresholds,
\* each group has lost all its members but one (its seed if keep_first, one
\* of its other members if not), every other feature is returned, and the
\* report counts them.
AloneOutcome ==
    /\ {Members(groups[g]) : g \in 1..Len(groups)} = GroupSets
    /\ \A S \in GroupSets :
            /\ Cardinality(S \cap Survivors) = 1
            /\ IF keep_first THEN SetMin(S) \in Survivors
               ELSE SetMin(S) \notin Survivors
    /\ DOMAIN df \ UNION GroupSets \subseteq Survivors
    /\ Cardinality(DOMAIN result_df) = Cardinality(Survivors)
    /\ report = [total     |-> n,
                 removed   |-> n - Cardinality(Survivors),
                 remaining |-> Cardinality(Survivors),
                 groups    |-> Cardinality(GroupSets)]

\* C25: when two calls are interleaved in any way, each on its own
\* collection, each returns survivors and a report that it can return when it
\* executes alone.
C25_InterleavedRunsAsAlone == Done => AloneOutcome

\* C25 witness: the executing call has finished and removed a feature while
\* the other call is suspended in the middle of its scan with a feature
\* consumed, after both were switched.
C25_Witness ==
    /\ Done
    /\ removed_set # {}
    /\ other # NoRun
    /\ other.pc = "cand"
    /\ other.to_remove # {}

\* C28: whenever the uploaded collections do not all declare the same CRS
\* and the Merge tool produces an output, every feature of the output is in
\* the CRS the output declares, also when the chosen collection declares no
\* CRS or one without an EPSG code.
C28_MergedInDeclaredCrs ==
    (merged_gdf.status = "ok" /\ ~validate_crs_compatibility(merge_upload)) =>
        /\ merged_gdf.crs # "None"
        /\ \A k \in DOMAIN merged_gdf.coords :
                merged_gdf.coords[k] = merged_gdf.crs

\* The CSV tool is the tool on the screen.
CsvShown == get_tool(tools, screen) = "ShapefileToCSVTool"

\* C29: in the Shapefile-to-CSV tool, after every run of the script with a
\* file in the uploader that loads, the collection cached in session state
\* (csv_tool_gdf) is the one loaded from the file now in the uploader, and
\* after a run with no file or with a file that does not load the cache is
\* empty.
C29_CacheFollowsUpload ==
    CsvShown =>
        /\ "csv_tool_gdf" \in DOMAIN session_state
        /\ IF csv_upload # NoUpload /\ Load(csv_upload.content) # "None"
           THEN session_state["csv_tool_gdf"] = Load(csv_upload.content)
           ELSE session_state["csv_tool_gdf"] = "None"

\* C30: whatever is clicked, selected_tool is None or a registered key, the
\* key of each homepage card (tool_<position in the tools list>) is the
\* registry key of the tool at that position, the screen shows the tool
\* selected, and "Tool not found!" is never shown.
C30_SelectionIsRegistered ==
    /\ session_state["selected_tool"] \in {"None"} \cup Keys(tools)
    /\ \A tool_idx \in 0..(Len(get_tools_list(tools)) - 1) :
        get_tool(tools, CardKey(tool_idx)) = get_tools_list(tools)[tool_idx + 1]
    /\ screen # "not_found"
    /\ screen = IF session_state["selected_tool"] = "None" THEN "home"
                ELSE session_state["selected_tool"]

\* the last card of the homepage was opened, and its tool is on the screen
C30_Witness ==
    /\ screen = CardKey(5)
    /\ session_state["selected_tool"] = CardKey(5)
    /\ get_tool(tools, screen) = get_tools_list(tools)[6]

====
